---- MODULE Spec2Model ----
(***************************************************************************)
(* The cluster state cache and its server-sent-event stream, as written in *)
(* the three server programs of the repository:                            *)
(*   "refresh": refreshClusterCacheAndNotify / StreamClusterState,         *)
(*              ClusterState.Nodes is a slice sorted by node name;         *)
(*   "update" : updateClusterState / StreamClusterState,                   *)
(*              ClusterState.Nodes is a map keyed by node name;            *)
(*   "watch"  : watchResource / updateData / StreamEvents.                 *)
(* The registration backend ("backend") has the KubeClientStore.           *)
(* Node and pod names are natural numbers standing for "n1" < "n2" < ...   *)
(* and "p1" < "p2" < ...; node 0 is the empty node name of an unscheduled  *)
(* pod.  Every section of code that runs under cacheMutex, and every       *)
(* channel operation, is one atomic step.                                  *)
(***************************************************************************)
EXTENDS Integers, Sequences, FiniteSets, TLC

VARIABLES
    variant,        \* which timer-driven program runs: "refresh" or "update"
    clusterCache,   \* var clusterCache ClusterState
    chan,           \* var clusterStateEventChannel (buffered) / eventChannel
    prod,           \* the timer-driven producer: main and its ticker goroutine
    cancelled,      \* ctx of main is cancelled (termination signal received)
    sess,           \* one StreamClusterState / StreamEvents handler per session
    version,        \* history: how many values clusterCache has had
    cycle,          \* history: the collection cycle in progress or just ended
    prev,           \* history: the collection cycle before that one
    sent,           \* history: how many messages were put on the channel
    raw,            \* what the cluster API returns, cycle by cycle, when scripted
    nodesCache,     \* var nodesCache []gin.H   (watch program)
    podsCache,      \* var podsCache []gin.H    (watch program)
    watch,          \* the two watchResource goroutines (watch program)
    kcs             \* the KubeClientStore of the registration backend

vars == <<variant, clusterCache, chan, prod, cancelled, sess, version, cycle, prev, sent,
          raw, nodesCache, podsCache, watch, kcs>>

pollVars == <<variant, clusterCache, prod, version, cycle, prev, sent, raw, kcs>>
watchVars == <<nodesCache, podsCache, watch>>

----------------------------------------------------------------------------
(* Bounds of the model *)

\* collection cycles the timer-driven producer starts
MaxCycles == 3
\* stream sessions (HTTP connections to /state or /events)
NumSessions == 2
\* watch events each watchResource goroutine receives
MaxEvents == 2
\* most nodes, and most pods, of the cluster in a scripted collection
MaxNode == 2
MaxPod == 2
\* cycles of a producer that runs until its channel has been full
MaxFullCycles == 12
\* cycles of the producer while the handlers are followed to their return
MaxLiveCycles == 2
\* Set calls made on the client store
MaxCalls == 4

\* make(chan string, 10)
ChanCap == 10

Sessions == 1..NumSessions

----------------------------------------------------------------------------
(* Go values *)

\* a nil slice or nil map
NilValue == [null |-> TRUE, items |-> <<>>]

\* a non-nil slice (items is a sequence) or map (items is a function)
Value(items) == [null |-> FALSE, items |-> items]

PodInfo(name, node) ==
    [name |-> name, namespace |-> "default", status |-> "Running", node |-> node]

NodeInfo(name, pods) == [name |-> name, pods |-> pods]

RECURSIVE SetToSortedSeq(_)
SetToSortedSeq(S) ==
    IF S = {} THEN <<>>
    ELSE LET m == CHOOSE x \in S : \A y \in S : x <= y
         IN <<m>> \o SetToSortedSeq(S \ {m})

Range(s) == {s[i] : i \in DOMAIN s}

----------------------------------------------------------------------------
(* What the cluster API returns to one collection cycle *)

RawNodeLists == {<<>>, <<1>>}

RawPodLists == {<<>>, <<PodInfo(1, 1)>>, <<PodInfo(1, 0)>>}

\* Nodes().List fails; Pods().List is then not called
NodesFailed == [nodesErr |-> TRUE, podsErr |-> FALSE, nodes |-> <<>>, pods |-> <<>>]

FetchResults ==
    {NodesFailed}
    \cup {[nodesErr |-> FALSE, podsErr |-> TRUE, nodes |-> n, pods |-> <<>>] :
            n \in RawNodeLists}
    \cup {[nodesErr |-> FALSE, podsErr |-> FALSE, nodes |-> n, pods |-> p] :
            n \in RawNodeLists, p \in RawPodLists}

Failed(r) == r.nodesErr \/ r.podsErr

----------------------------------------------------------------------------
(* State Builder and Change Detector *)

\* an assignment that also files the unscheduled pods under every node
PodsOfOrUnscheduled(pods, n) == SelectSeq(pods, LAMBDA p : p.node = n \/ p.node = 0)

\* the pods of the raw list bound to node n, in the order of the raw list
PodsOf(pods, n) == SelectSeq(pods, LAMBDA p : p.node = n)

\* a map that appends every pod to every node
NodesMapAllPods(r) == [n \in Range(r.nodes) |-> NodeInfo(n, r.pods)]

\* nodesMap / newState.Nodes: one NodeInfo per raw node, pods appended to the
\* node they name when that node exists
NodesMap(r) == [n \in Range(r.nodes) |-> NodeInfo(n, PodsOf(r.pods, n))]

\* getClusterState of the refresh program: nil on a failed fetch, and nil as
\* well when no node was appended to nodesList; else the nodes sorted by name
getClusterState(r) ==
    IF Failed(r) \/ r.nodes = <<>>
    THEN NilValue
    ELSE LET m == NodesMap(r)
             order == SetToSortedSeq(DOMAIN m)
         IN Value([i \in 1..Len(order) |-> m[order[i]]])

\* newState of the update program: a non-nil map, also when it is empty
BuildUpdateState(r) == Value(NodesMap(r))

\* json.Marshal of a ClusterState: null for a nil Nodes, an array for a slice,
\* an object with its keys in sorted order for a map
Marshal(v, c) ==
    IF c.Nodes.null THEN <<"null">>
    ELSE IF v = "update"
         THEN LET keys == SetToSortedSeq(DOMAIN c.Nodes.items)
              IN <<"object", [i \in 1..Len(keys) |->
                                <<keys[i], c.Nodes.items[keys[i]]>>]>>
         ELSE <<"array", c.Nodes.items>>

\* reflect.DeepEqual(clusterCache.Nodes, newNodes): a nil slice differs from
\* an empty one, otherwise element by element
DeepEqual(a, b) == a.null = b.null /\ a.items = b.items

\* a comparison that never finds the two states the same, as a comparison of
\* the addresses of the two values would
NeverSameState(v, cache, newState) == FALSE

\* isSameState of the refresh program; the comparison of the two JSON texts of
\* the update program
SameState(v, cache, newState) ==
    IF v = "update"
    THEN Marshal(v, [Nodes |-> newState]) = Marshal(v, cache)
    ELSE DeepEqual(cache.Nodes, newState)

\* the candidate one cycle builds from what the cluster API returned
Candidate(v, r) == IF v = "update" THEN BuildUpdateState(r) ELSE getClusterState(r)

\* the cycle returns before it compares: a failed fetch, and in the refresh
\* program every nil result of getClusterState
ReturnsEarly(v, r) ==
    IF v = "update" THEN Failed(r) ELSE getClusterState(r) = NilValue

----------------------------------------------------------------------------
(* Initial state: the package variables as declared, before main runs *)

\* no cycle has run: the record kept of a collection cycle
NoCycle ==
    [n |-> 0, failed |-> FALSE, zeroNodes |-> FALSE,
     before |-> [Nodes |-> NilValue], sentBefore |-> 0,
     cand |-> NilValue, installed |-> FALSE, sent |-> FALSE, dropped |-> FALSE]

NoPrev == [installed |-> FALSE, cand |-> NilValue]

NoPayload == [kind |-> "none", data |-> <<"null">>, ver |-> 0]

InitSession ==
    [pc |-> "none", gone |-> FALSE, last |-> NoPayload, attachVer |-> 0]

\* the consumer has disconnected, the handler has not noticed yet; what was
\* delivered to that consumer is no longer looked at
GoneSession == [InitSession EXCEPT !.pc = "loop", !.gone = TRUE]

\* the handler has returned
ClosedSession == [InitSession EXCEPT !.pc = "closed", !.gone = TRUE]

Watchers == {"nodes", "pods"}

\* a watchResource goroutine; ok and failed are history: this goroutine has
\* completed a cycle without a failed fetch, the cycle in progress had one
InitWatcher ==
    [pc |-> "idle", events |-> 0, message |-> NoPayload,
     newNodes |-> NilValue, newPods |-> NilValue, failed |-> FALSE, ok |-> FALSE]

\* NewKubeClientStore: data is an empty map; calls is history, the Set calls
\* made so far, and ret what the last call returned
NewKubeClientStore ==
    [data |-> <<>>, calls |-> <<>>,
     ret |-> [op |-> "none", key |-> "", client |-> "nil", err |-> FALSE]]

InitCommon ==
    /\ kcs = NewKubeClientStore
    /\ clusterCache = [Nodes |-> NilValue]
    /\ chan = <<>>
    /\ prod = [pc |-> "idle", n |-> 0, newState |-> NilValue]
    /\ cancelled = FALSE
    /\ sess = [s \in Sessions |-> InitSession]
    /\ version = 1
    /\ cycle = NoCycle
    /\ prev = NoPrev
    /\ sent = 0
    /\ nodesCache = NilValue
    /\ podsCache = NilValue
    /\ watch = [w \in Watchers |-> InitWatcher]

Init ==
    /\ variant \in {"refresh", "update"}
    /\ raw = <<>>
    /\ InitCommon

\* router.Run is reached: main has finished its first, synchronous cycle
Serving == prod.n >= 1 /\ (prod.n > 1 \/ prod.pc \in {"idle", "stopped"})

----------------------------------------------------------------------------
(* The timer-driven producer: refreshClusterCacheAndNotify (refresh program) *)
(* and updateClusterState (update program)                                 *)

\* The cycle starts (called by main, or ticker.C was selected), fetches nodes
\* and pods and builds the candidate; a failed fetch ends the cycle here.
Fetch(r) ==
    /\ prod.pc = "idle"
    /\ prev' = [installed |-> cycle.installed, cand |-> cycle.cand]
    /\ cycle' = [n |-> prod.n + 1, failed |-> Failed(r),
                 zeroNodes |-> ~Failed(r) /\ r.nodes = <<>>,
                 before |-> clusterCache, sentBefore |-> sent,
                 cand |-> IF Failed(r) THEN NilValue ELSE Candidate(variant, r),
                 installed |-> FALSE,
                 sent |-> FALSE, dropped |-> FALSE]
    /\ prod' = [pc |-> IF ReturnsEarly(variant, r) THEN "idle" ELSE "compare",
                n |-> prod.n + 1,
                newState |-> IF ReturnsEarly(variant, r)
                             THEN NilValue ELSE Candidate(variant, r)]
    /\ UNCHANGED <<variant, clusterCache, chan, cancelled, sess, version, sent, raw, kcs>>
    /\ UNCHANGED watchVars

\* cacheMutex.RLock(); compare; cacheMutex.RUnlock(); return when the same
Compare ==
    /\ prod.pc = "compare"
    /\ prod' = [prod EXCEPT !.pc = IF SameState(variant, clusterCache, prod.newState)
                                   THEN "idle" ELSE "install"]
    /\ UNCHANGED <<variant, clusterCache, chan, cancelled, sess, version, cycle, prev, sent, raw, kcs>>
    /\ UNCHANGED watchVars

\* an installation that takes the lock and forgets the assignment
InstallKeepsCache ==
    /\ prod.pc = "install"
    /\ version' = version + 1
    /\ cycle' = [cycle EXCEPT !.installed = TRUE]
    /\ prod' = [prod EXCEPT !.pc = "notify"]
    /\ UNCHANGED <<variant, clusterCache, chan, cancelled, sess, prev, sent, raw, kcs>>
    /\ UNCHANGED watchVars

\* an installation that updates the cached state in place: it adds the entries
\* the cache does not have and leaves the entries it has as they are
InstallInPlace ==
    /\ prod.pc = "install"
    /\ clusterCache' =
         [Nodes |-> IF clusterCache.Nodes.null
                    THEN prod.newState
                    ELSE Value([k \in DOMAIN prod.newState.items |->
                                  IF k \in DOMAIN clusterCache.Nodes.items
                                  THEN clusterCache.Nodes.items[k]
                                  ELSE prod.newState.items[k]])]
    /\ version' = version + 1
    /\ cycle' = [cycle EXCEPT !.installed = TRUE]
    /\ prod' = [prod EXCEPT !.pc = "notify"]
    /\ UNCHANGED <<variant, chan, cancelled, sess, prev, sent, raw, kcs>>
    /\ UNCHANGED watchVars

\* cacheMutex.Lock(); clusterCache = new state; cacheMutex.Unlock()
Install ==
    /\ prod.pc = "install"
    /\ clusterCache' = [Nodes |-> prod.newState]
    /\ version' = version + 1
    /\ cycle' = [cycle EXCEPT !.installed = TRUE]
    /\ prod' = [prod EXCEPT !.pc = "notify"]
    /\ UNCHANGED <<variant, chan, cancelled, sess, prev, sent, raw, kcs>>
    /\ UNCHANGED watchVars

\* the message built from json.Marshal(clusterCache)
Message == [data |-> Marshal(variant, clusterCache), ver |-> version]

\* a send that always finds room
NotifyUnbounded ==
    /\ prod.pc = "notify"
    /\ chan' = Append(chan, Message)
    /\ sent' = sent + 1
    /\ cycle' = [cycle EXCEPT !.sent = TRUE]
    /\ prod' = [prod EXCEPT !.pc = "idle", !.newState = NilValue]
    /\ UNCHANGED <<variant, clusterCache, cancelled, sess, version, prev, raw, kcs>>
    /\ UNCHANGED watchVars

\* select { case clusterStateEventChannel <- message: ... default: ... }
Notify ==
    /\ prod.pc = "notify"
    /\ IF Len(chan) < ChanCap
       THEN /\ chan' = Append(chan, Message)
            /\ sent' = sent + 1
            /\ cycle' = [cycle EXCEPT !.sent = TRUE]
       ELSE /\ chan' = chan
            /\ sent' = sent
            /\ cycle' = [cycle EXCEPT !.dropped = TRUE]
    /\ prod' = [prod EXCEPT !.pc = "idle", !.newState = NilValue]
    /\ UNCHANGED <<variant, clusterCache, cancelled, sess, version, prev, raw, kcs>>
    /\ UNCHANGED watchVars

\* Termination.  Shutdown and TickerStop only ever stop the producer (the
\* handlers wait on their request's context, not on ctx), so Next leaves them
\* out and cancelled stays FALSE under Spec; NextShutdown has them.

\* the signal goroutine: <-sigs; cancel()
Shutdown ==
    /\ ~cancelled
    /\ cancelled' = TRUE
    /\ UNCHANGED <<variant, clusterCache, chan, prod, sess, version, cycle, prev, sent, raw, kcs>>
    /\ UNCHANGED watchVars

\* the ticker goroutine selects <-ctx.Done(): ticker.Stop(); return
TickerStop ==
    /\ cancelled
    /\ Serving
    /\ prod.pc = "idle"
    /\ prod' = [prod EXCEPT !.pc = "stopped"]
    /\ UNCHANGED <<variant, clusterCache, chan, cancelled, sess, version, cycle, prev, sent, raw, kcs>>
    /\ UNCHANGED watchVars

----------------------------------------------------------------------------
(* StreamClusterState: one handler goroutine per connection to /state *)

\* a handler that goes straight to its loop, as StreamEvents does
StreamAttachNoSnapshot(s) ==
    /\ Serving
    /\ sess[s].pc = "none"
    /\ sess' = [sess EXCEPT ![s].pc = "loop", ![s].attachVer = version]
    /\ UNCHANGED <<chan, cancelled>>
    /\ UNCHANGED pollVars
    /\ UNCHANGED watchVars

\* the handler starts: cacheMutex.RLock(); json.Marshal(clusterCache); RUnlock();
\* fmt.Fprintf(c.Writer, ...initialState); Flush(), to a consumer that has just
\* connected
StreamAttach(s) ==
    /\ Serving
    /\ sess[s].pc = "none"
    /\ sess' = [sess EXCEPT ![s].pc = "loop",
                            ![s].attachVer = version,
                            ![s].last =
                                [kind |-> "snapshot",
                                 data |-> Marshal(variant, clusterCache),
                                 ver |-> version]]
    /\ UNCHANGED <<chan, cancelled>>
    /\ UNCHANGED pollVars
    /\ UNCHANGED watchVars

\* case message := <-clusterStateEventChannel: Write(message); return on error
StreamReceive(s) ==
    /\ sess[s].pc = "loop"
    /\ chan # <<>>
    /\ chan' = Tail(chan)
    /\ sess' = IF sess[s].gone
               THEN [sess EXCEPT ![s] = ClosedSession]
               ELSE [sess EXCEPT ![s].last =
                        [kind |-> "message", data |-> Head(chan).data,
                         ver |-> Head(chan).ver]]
    /\ UNCHANGED cancelled
    /\ UNCHANGED pollVars
    /\ UNCHANGED watchVars

\* a handler that looks at its request's context only when a message is there
StreamDoneAfterMessage(s) ==
    /\ sess[s].pc = "loop"
    /\ sess[s].gone
    /\ chan # <<>>
    /\ sess' = [sess EXCEPT ![s] = ClosedSession]
    /\ UNCHANGED <<chan, cancelled>>
    /\ UNCHANGED pollVars
    /\ UNCHANGED watchVars

\* case <-c.Request.Context().Done(): return
StreamDone(s) ==
    /\ sess[s].pc = "loop"
    /\ sess[s].gone
    /\ sess' = [sess EXCEPT ![s] = ClosedSession]
    /\ UNCHANGED <<chan, cancelled>>
    /\ UNCHANGED pollVars
    /\ UNCHANGED watchVars

\* the consumer disconnects: writes to it fail and its request context is done
ClientDisconnect(s) ==
    /\ sess[s].pc = "loop"
    /\ ~sess[s].gone
    /\ sess' = [sess EXCEPT ![s] = GoneSession]
    /\ UNCHANGED <<chan, cancelled>>
    /\ UNCHANGED pollVars
    /\ UNCHANGED watchVars

Next ==
    \/ \E r \in FetchResults : prod.n < MaxCycles /\ Fetch(r)
    \/ Compare
    \/ Install
    \/ Notify
    \/ \E s \in Sessions : StreamAttach(s)
    \/ \E s \in Sessions : StreamReceive(s)
    \/ \E s \in Sessions : StreamDone(s)
    \/ \E s \in Sessions : ClientDisconnect(s)

Spec == Init /\ [][Next]_vars

----------------------------------------------------------------------------
(* The watch program: watchResource, updateData, StreamEvents *)

Condition(type, status) == [type |-> type, status |-> status]

RawNode(name, conditions) == [name |-> name, conditions |-> conditions]

\* getNodeStatus: "Ready" when some condition is Ready with status True
getNodeStatus(node) ==
    IF \E i \in DOMAIN node.conditions :
           node.conditions[i].type = "Ready" /\ node.conditions[i].status = "True"
    THEN "Ready" ELSE "NotReady"

WatchNodeLists ==
    {<<>>, <<RawNode(1, <<Condition("Ready", "True")>>)>>,
     <<RawNode(1, <<Condition("Ready", "False")>>)>>}

WatchPodLists == {<<>>, <<PodInfo(1, 1)>>}

\* updateData calls Pods().List also after Nodes().List has failed
WatchFetchResults ==
    {[nodesErr |-> ne, podsErr |-> pe,
      nodes |-> IF ne THEN <<>> ELSE n, pods |-> IF pe THEN <<>> ELSE q] :
        ne \in BOOLEAN, pe \in BOOLEAN, n \in WatchNodeLists, q \in WatchPodLists}

\* newNodes of updateData: starts as an empty, non-nil slice and stays so when
\* the fetch fails
NewNodes(r) ==
    Value([i \in 1..Len(r.nodes) |->
             [name |-> r.nodes[i].name, status |-> getNodeStatus(r.nodes[i])]])

\* newPods of updateData
NewPods(r) ==
    Value([i \in 1..Len(r.pods) |->
             [namespace |-> r.pods[i].namespace, name |-> r.pods[i].name,
              status |-> r.pods[i].status]])

InitWatch ==
    /\ variant = "watch"
    /\ raw = <<>>
    /\ InitCommon

\* default: watcher, err := watchFunc(ctx, ...) succeeds
WatchStart(w) ==
    /\ watch[w].pc = "idle"
    /\ watch' = [watch EXCEPT ![w].pc = "watching"]
    /\ UNCHANGED <<chan, cancelled, sess, nodesCache, podsCache>>
    /\ UNCHANGED pollVars

\* for event := range watcher.ResultChan(): the next event; message is built
WatchEvent(w) ==
    /\ watch[w].pc = "watching"
    /\ watch[w].events < MaxEvents
    /\ watch' = [watch EXCEPT ![w].pc = "send",
                              ![w].events = @ + 1,
                              ![w].message =
                                  [kind |-> "event", data |-> <<w, watch[w].events + 1>>,
                                   ver |-> 0]]
    /\ UNCHANGED <<chan, cancelled, sess, nodesCache, podsCache>>
    /\ UNCHANGED pollVars

\* the result channel is closed: the range loop ends, back to the select
WatchClosed(w) ==
    /\ watch[w].pc = "watching"
    /\ watch' = [watch EXCEPT ![w].pc = "idle"]
    /\ UNCHANGED <<chan, cancelled, sess, nodesCache, podsCache>>
    /\ UNCHANGED pollVars

\* eventChannel <- message on the unbuffered channel: it completes together
\* with case message := <-eventChannel of one StreamEvents handler, which
\* writes the message and returns on a write error
EventSend(w, s) ==
    /\ watch[w].pc = "send"
    /\ sess[s].pc = "loop"
    /\ watch' = [watch EXCEPT ![w].pc = "update", ![w].message = NoPayload]
    /\ sess' = IF sess[s].gone
               THEN [sess EXCEPT ![s] = ClosedSession]
               ELSE [sess EXCEPT ![s].last = watch[w].message]
    /\ UNCHANGED <<chan, cancelled, nodesCache, podsCache>>
    /\ UNCHANGED pollVars

\* updateData up to "Update cache": both lists are fetched, an error is logged
UpdateFetch(w, r) ==
    /\ watch[w].pc = "update"
    /\ watch' = [watch EXCEPT ![w].pc = "install",
                              ![w].newNodes = NewNodes(r),
                              ![w].newPods = NewPods(r),
                              ![w].failed = Failed(r)]
    /\ UNCHANGED <<chan, cancelled, sess, nodesCache, podsCache>>
    /\ UNCHANGED pollVars

\* cacheMutex.Lock(); nodesCache = newNodes; podsCache = newPods; Unlock()
UpdateInstall(w) ==
    /\ watch[w].pc = "install"
    /\ nodesCache' = watch[w].newNodes
    /\ podsCache' = watch[w].newPods
    /\ watch' = [watch EXCEPT ![w].pc = "watching",
                              ![w].newNodes = NilValue,
                              ![w].newPods = NilValue,
                              ![w].failed = FALSE,
                              ![w].ok = @ \/ ~watch[w].failed]
    /\ UNCHANGED <<chan, cancelled, sess>>
    /\ UNCHANGED pollVars

\* StreamEvents starts: the headers are set, nothing is written
EventsAttach(s) ==
    /\ sess[s].pc = "none"
    /\ sess' = [sess EXCEPT ![s].pc = "loop"]
    /\ UNCHANGED <<chan, cancelled>>
    /\ UNCHANGED pollVars
    /\ UNCHANGED watchVars

NextWatch ==
    \/ \E w \in Watchers : WatchStart(w)
    \/ \E w \in Watchers : WatchEvent(w)
    \/ \E w \in Watchers : WatchClosed(w)
    \/ \E w \in Watchers, s \in Sessions : EventSend(w, s)
    \/ \E w \in Watchers, r \in WatchFetchResults : UpdateFetch(w, r)
    \/ \E w \in Watchers : UpdateInstall(w)
    \/ \E s \in Sessions : EventsAttach(s)
    \/ \E s \in Sessions : StreamDone(s)
    \/ \E s \in Sessions : ClientDisconnect(s)

SpecWatch == InitWatch /\ [][NextWatch]_vars

----------------------------------------------------------------------------
(* The builder and the detector on every listing of a small cluster: the   *)
(* producer runs two cycles on a cluster that does not change in between,   *)
(* the API listing its nodes and pods in any order each time                *)

\* Nodes().List: nodes of distinct names, in any order
BuildNodeLists ==
    {s \in UNION {[1..k -> 1..MaxNode] : k \in 0..MaxNode} :
        \A i, j \in DOMAIN s : s[i] = s[j] => i = j}

\* a pod as the builder reads it: pod.Name and pod.Spec.NodeName, which is
\* empty (0) for an unscheduled pod and may name a node that is not listed
BuildPods == {PodInfo(p, b) : p \in 1..MaxPod, b \in 0..MaxNode}

\* Pods("").List: pods of distinct names, in any order
BuildPodLists ==
    {s \in UNION {[1..k -> BuildPods] : k \in 0..MaxPod} :
        \A i, j \in DOMAIN s : s[i].name = s[j].name => i = j}

BuildInputs ==
    {[nodesErr |-> FALSE, podsErr |-> FALSE, nodes |-> n, pods |-> p] :
        n \in BuildNodeLists, p \in BuildPodLists}

\* the orders in which the items of a list, all different, can be listed
Orders(s) == {q \in [DOMAIN s -> Range(s)] : Range(q) = Range(s)}

\* the listings of the same nodes and pods as r, r itself among them
Reordered(r) ==
    {[r EXCEPT !.nodes = n, !.pods = p] : n \in Orders(r.nodes), p \in Orders(r.pods)}

InitBuild ==
    /\ variant \in {"refresh", "update"}
    /\ \E r \in BuildInputs : \E q \in Reordered(r) : raw = <<r, q>>
    /\ InitCommon

NextBuild ==
    \/ prod.n < Len(raw) /\ Fetch(raw[prod.n + 1])
    \/ Compare
    \/ Install
    \/ Notify

SpecBuild == InitBuild /\ [][NextBuild]_vars

----------------------------------------------------------------------------
(* Termination: main with its signal goroutine.  The scheduler runs every   *)
(* goroutine that can take a step and the ticker keeps firing; consumers    *)
(* connect and disconnect, and the signal arrives, as they please.          *)

FetchStep == \E r \in FetchResults : prod.n < MaxCycles /\ Fetch(r)

NextShutdown ==
    \/ Next
    \/ Shutdown
    \/ TickerStop

FairScheduling ==
    /\ WF_vars(FetchStep)
    /\ WF_vars(Compare)
    /\ WF_vars(Install)
    /\ WF_vars(Notify)
    /\ WF_vars(TickerStop)
    /\ \A s \in Sessions : WF_vars(StreamReceive(s)) /\ WF_vars(StreamDone(s))

SpecShutdown == Init /\ [][NextShutdown]_vars /\ FairScheduling

----------------------------------------------------------------------------
(* The producer while no consumer is connected to /state: nothing receives  *)
(* from the channel, which fills up                                         *)

NextFull ==
    \/ \E r \in FetchResults : prod.n < MaxFullCycles /\ Fetch(r)
    \/ Compare
    \/ Install
    \/ Notify

SpecFull == Init /\ [][NextFull]_vars

----------------------------------------------------------------------------
(* The handlers under a fair scheduler: a handler goroutine whose select    *)
(* has a ready case is run.  Nothing is assumed of the producer, of the     *)
(* consumers, or of what is in the channel.                                 *)

\* one round of the select of StreamClusterState
HandlerStep(s) == StreamReceive(s) \/ StreamDone(s)

NextSessions ==
    \/ \E r \in FetchResults : prod.n < MaxLiveCycles /\ Fetch(r)
    \/ Compare
    \/ Install
    \/ Notify
    \/ \E s \in Sessions : StreamAttach(s)
    \/ \E s \in Sessions : StreamReceive(s)
    \/ \E s \in Sessions : StreamDone(s)
    \/ \E s \in Sessions : ClientDisconnect(s)

FairHandlers == \A s \in Sessions : WF_vars(HandlerStep(s))

SpecSessions == Init /\ [][NextSessions]_vars /\ FairHandlers

----------------------------------------------------------------------------
(* The registration backend: KubeClientStore, its calls one after another  *)

\* c.Param("id") / newRawKubeConfig.Name
Keys == {"a", "b"}

\* *kubernetes.Clientset values: nil and two clients
Clients == {"nil", "c1", "c2"}

\* a Set that keeps the client a key already has
SetIfAbsent(key, value) ==
    /\ Len(kcs.calls) < MaxCalls
    /\ kcs' = [data |-> [k \in DOMAIN kcs.data \cup {key} |->
                            IF k \in DOMAIN kcs.data THEN kcs.data[k] ELSE value],
                calls |-> Append(kcs.calls, <<key, value>>),
                ret |-> [op |-> "Set", key |-> key, client |-> "nil", err |-> FALSE]]
    /\ UNCHANGED <<chan, cancelled, sess>>
    /\ UNCHANGED <<variant, clusterCache, prod, version, cycle, prev, sent, raw>>
    /\ UNCHANGED watchVars

\* k.data[key] = value; return nil
Set(key, value) ==
    /\ Len(kcs.calls) < MaxCalls
    /\ kcs' = [data |-> [k \in DOMAIN kcs.data \cup {key} |->
                            IF k = key THEN value ELSE kcs.data[k]],
                calls |-> Append(kcs.calls, <<key, value>>),
                ret |-> [op |-> "Set", key |-> key, client |-> "nil", err |-> FALSE]]
    /\ UNCHANGED <<chan, cancelled, sess>>
    /\ UNCHANGED <<variant, clusterCache, prod, version, cycle, prev, sent, raw>>
    /\ UNCHANGED watchVars

\* if _, ok := k.data[key]; !ok { return nil, error }; return k.data[key], nil
Get(key) ==
    /\ kcs' = [kcs EXCEPT !.ret =
                  IF key \notin DOMAIN kcs.data
                  THEN [op |-> "Get", key |-> key, client |-> "nil", err |-> TRUE]
                  ELSE [op |-> "Get", key |-> key, client |-> kcs.data[key],
                        err |-> FALSE]]
    /\ UNCHANGED <<chan, cancelled, sess>>
    /\ UNCHANGED <<variant, clusterCache, prod, version, cycle, prev, sent, raw>>
    /\ UNCHANGED watchVars

InitStore ==
    /\ variant = "backend"
    /\ raw = <<>>
    /\ InitCommon

NextStore ==
    \/ \E key \in Keys, value \in Clients : Set(key, value)
    \/ \E key \in Keys : Get(key)

SpecStore == InitStore /\ [][NextStore]_vars

----------------------------------------------------------------------------
(* Properties *)

\* how many nodes a snapshot of the cache shows
NodeCount(c) == IF c.Nodes.null THEN 0 ELSE Cardinality(DOMAIN c.Nodes.items)

\* the sessions that were attached before the cache took its current value and
\* are still attached, their consumer connected
AttachedBeforeInstall ==
    {s \in Sessions : sess[s].pc = "loop" /\ ~sess[s].gone /\ sess[s].attachVer < version}

\* C1: a collection cycle with a failed fetch, after some cycle has succeeded,
\* leaves the cached state as it was and puts nothing on the event channel; for
\* the timer-driven cycle (refreshClusterCacheAndNotify, updateClusterState) the
\* failing cycle is the one step that starts and ends it, for updateData it is
\* the step that writes the cache.
C1_FailedCycleKeepsCache ==
    [][ /\ (prod'.n = prod.n + 1 /\ cycle'.failed /\ version > 1)
            => (prod'.pc = "idle" /\ clusterCache' = clusterCache /\ chan' = chan)
        /\ \A w \in Watchers :
             (/\ watch[w].pc = "install"
              /\ watch'[w].pc = "watching"
              /\ watch[w].failed
              /\ \E x \in Watchers : watch[x].ok)
             => (nodesCache' = nodesCache /\ podsCache' = podsCache /\ chan' = chan)
      ]_vars

\* C2: once the notification of the latest installed state has left the
\* channel, every one of two or more sessions that were attached when it was
\* installed, and still are, has delivered that state.
C2_NotificationFansOut ==
    (/\ prod.pc = "idle"
     /\ cycle.installed
     /\ cycle.sent
     /\ chan = <<>>
     /\ Cardinality(AttachedBeforeInstall) >= 2)
    => \A s \in AttachedBeforeInstall :
          /\ sess[s].last.ver = version
          /\ sess[s].last.data = Marshal(variant, clusterCache)

C4_DeliveryIsCurrentState ==
    [][ \A s \in Sessions :
          (sess'[s].last # sess[s].last /\ sess'[s].last.kind = "message")
          => sess'[s].last.data = Marshal(variant, clusterCache')
      ]_vars

\* C5: when nothing is in flight (the producer is between cycles and the
\* channel is empty, so that no session delivers anything more unless the
\* cluster changes again), the last payload of every attached session equals
\* the cached state.
C5_EventualConsistency ==
    \A s \in Sessions :
        (sess[s].pc = "loop" /\ ~sess[s].gone /\ prod.pc = "idle" /\ chan = <<>>)
        => sess[s].last.data = Marshal(variant, clusterCache)

\* C6: a producer that has reached its publish step can always complete it,
\* whatever the sessions are doing: the timer-driven producer in Notify, a
\* watchResource goroutine in its send on eventChannel.
C6_PublishNeverBlocks ==
    /\ prod.pc = "notify" => ENABLED Notify
    /\ \A w \in Watchers :
          watch[w].pc = "send" => ENABLED (\E s \in Sessions : EventSend(w, s))

\* C7: a cycle whose fetch succeeded and whose candidate is identical to the
\* state cached when it started ends with the cache as it was, nothing
\* installed and no message put on the channel.
C7_UnchangedCycleIsSilent ==
    (/\ prod.pc = "idle"
     /\ cycle.n >= 1
     /\ ~cycle.failed
     /\ cycle.cand = cycle.before.Nodes)
    => /\ clusterCache = cycle.before
       /\ ~cycle.installed
       /\ ~cycle.sent
       /\ sent = cycle.sentBefore

\* C7 witness: such a cycle, with a node in the cache and a session attached,
\* has ended.
C7_Witness ==
    /\ prod.pc = "idle"
    /\ ~cycle.failed
    /\ cycle.cand = cycle.before.Nodes
    /\ NodeCount(clusterCache) > 0
    /\ \E s \in Sessions : sess[s].pc = "loop" /\ ~sess[s].gone

\* C8: the cache is replaced only in the step that compared the candidate with
\* it, that is, comparison and installation are one section under cacheMutex.
C8_CompareAndInstallAtomic ==
    [][ clusterCache' # clusterCache => prod.pc = "compare" ]_vars

\* C9: a cycle whose candidate is the candidate the cycle before it installed
\* installs nothing and puts nothing on the channel.
C9_RepeatedCandidateIsNoOp ==
    (prev.installed /\ ~cycle.failed /\ cycle.cand = prev.cand)
    => /\ ~cycle.installed
       /\ ~cycle.sent
       /\ ~cycle.dropped
       /\ clusterCache = cycle.before
       /\ sent = cycle.sentBefore

\* C9 witness: the repeating cycle has run to its end.
C9_Witness ==
    /\ prev.installed
    /\ ~cycle.failed
    /\ cycle.cand = prev.cand
    /\ prod.pc = "idle"

\* C10: a cycle whose fetch succeeded with zero nodes while a state with nodes
\* was cached ends with the empty state installed, a notification published
\* (or dropped on a full channel) and a cache that shows zero nodes.
C10_EmptyClusterIsInstalled ==
    (/\ prod.pc = "idle"
     /\ cycle.zeroNodes
     /\ NodeCount(cycle.before) > 0)
    => /\ cycle.installed
       /\ cycle.sent \/ cycle.dropped
       /\ NodeCount(clusterCache) = 0

\* the pods listed in a Nodes value
PodsIn(v) ==
    IF v.null THEN {} ELSE UNION {Range(v.items[k].pods) : k \in DOMAIN v.items}

\* C11: when a cycle is given the same nodes and the same pods as the cycle
\* before it, listed in a different order, it finds the state unchanged: it
\* does not install and it does not publish.
C11_ReorderedInputIsUnchanged ==
    (/\ Len(raw) = 2
     /\ cycle.n = 2
     /\ Range(raw[2].nodes) = Range(raw[1].nodes)
     /\ Range(raw[2].pods) = Range(raw[1].pods))
    => /\ prod.pc \notin {"install", "notify"}
       /\ ~cycle.installed
       /\ ~cycle.sent
       /\ clusterCache = cycle.before

\* C12: when the handler of a session returns, on a failed write or otherwise,
\* nothing else is touched: the other sessions and the producer are as they
\* were, and what is queued stays queued for the sessions still attached.
C12_WriteFailureIsLocal ==
    [][\A s \in Sessions :
        (sess[s].pc = "loop" /\ sess'[s].pc = "closed")
        => /\ \A t \in Sessions \ {s} : sess'[t] = sess[t]
           /\ prod' = prod
           /\ clusterCache' = clusterCache
           /\ (\E t \in Sessions \ {s} : sess[t].pc = "loop" /\ ~sess[t].gone)
              => chan' = chan]_vars

\* C14: a session whose consumer has disconnected, or whose handler has
\* returned, takes nothing more from the queue and delivers nothing more.
C14_ClosedSessionTakesNothing ==
    [][\A s \in Sessions :
        (sess[s].gone \/ sess[s].pc = "closed")
        => /\ ~StreamReceive(s)
           /\ sess'[s].last = sess[s].last]_vars

\* C13: after the shutdown signal the ticker goroutine leaves its wait, and
\* once it has, no further cycle starts; and every session attached when the
\* signal arrives, or later, is eventually closed.
C13_ShutdownStopsEverything ==
    /\ (cancelled ~> prod.pc = "stopped")
    /\ [][prod.pc = "stopped" => prod' = prod]_vars
    /\ [](cancelled => <>(\A s \in Sessions : sess[s].pc # "loop"))

\* C15: a pod whose node name is not the name of a node of the same listing,
\* the empty name of an unscheduled pod included, is listed under no node of
\* the state built from that listing, nor of the state installed from it.
C15_UnknownNodePodsAreDropped ==
    (prod.n >= 1 /\ prod.n <= Len(raw))
    => LET r == raw[prod.n]
       IN \A p \in Range(r.pods) :
            p.node \notin Range(r.nodes)
            => \A q \in PodsIn(cycle.cand) \cup PodsIn(prod.newState)
                            \cup PodsIn(clusterCache.Nodes) : q.name # p.name

\* a listing with a pod on a listed node, a pod naming a node that is not
\* listed and so dropped, has been built and installed
C15_Witness ==
    /\ prod.n >= 1 /\ prod.n <= Len(raw)
    /\ cycle.installed
    /\ PodsIn(clusterCache.Nodes) # {}
    /\ \E p \in Range(raw[prod.n].pods) :
            p.node # 0 /\ p.node \notin Range(raw[prod.n].nodes)

\* C17: in every installed state no node name occurs twice, and every pod
\* listed under a node names that node as its node.
C17_InstalledStateIsWellFormed ==
    ~clusterCache.Nodes.null
    => LET items == clusterCache.Nodes.items
       IN /\ \A i, j \in DOMAIN items : items[i].name = items[j].name => i = j
          /\ variant = "update" => \A k \in DOMAIN items : items[k].name = k
          /\ \A k \in DOMAIN items :
                \A p \in Range(items[k].pods) : p.node = items[k].name

\* an installed state of two nodes, with pods on one node and a pod elsewhere
C17_Witness ==
    /\ ~clusterCache.Nodes.null
    /\ Cardinality(DOMAIN clusterCache.Nodes.items) = 2
    /\ PodsIn(clusterCache.Nodes) # {}
    /\ \E p \in Range(raw[1].pods) : p \notin PodsIn(clusterCache.Nodes)

\* C18: every state the builder produces is in canonical order, whatever the
\* order of the listing: the nodes of the slice ascending by name, and the
\* pods of each node ascending by name.
C18_BuiltStateIsCanonical ==
    ~cycle.cand.null
    => LET items == cycle.cand.items
       IN /\ variant = "refresh"
             => \A i, j \in DOMAIN items : i < j => items[i].name < items[j].name
          /\ \A k \in DOMAIN items :
                \A i, j \in DOMAIN items[k].pods :
                    i < j => items[k].pods[i].name < items[k].pods[j].name

\* C16: a cycle that starts with the cache as declared, never installed, and
\* whose fetch succeeds, installs what it built and publishes exactly one
\* notification; for one node n1 without pods that is the state [n1 with an
\* empty pod list].
C16_FirstSuccessIsChanged ==
    (/\ cycle.n >= 1
     /\ ~cycle.failed
     /\ cycle.before.Nodes.null
     /\ prod.pc = "idle")
    => /\ cycle.installed
       /\ ~clusterCache.Nodes.null
       /\ clusterCache.Nodes = cycle.cand
       /\ sent = cycle.sentBefore + 1

\* C19: the cache changes only when a cycle installs, and then to the whole
\* state built by that one cycle from its one fetch; and the snapshot a session
\* reads when it attaches is the cache as it is at that moment.  So a reader
\* sees the declared value or the state of exactly one cycle.
C19_SnapshotIsOneCycle ==
    [][/\ clusterCache' # clusterCache => ~cycle.installed /\ cycle'.installed
       /\ (~cycle.installed /\ cycle'.installed)
          => /\ ~cycle.failed
             /\ cycle.n = prod.n
             /\ clusterCache' = [Nodes |-> cycle.cand]
       /\ \A s \in Sessions :
            (sess[s].pc = "none" /\ sess'[s].pc = "loop")
            => sess'[s].last.data = Marshal(variant, clusterCache)]_vars

\* a session has read its snapshot from a cache that has been replaced at
\* least twice
C19_Witness ==
    \E s \in Sessions :
        /\ sess[s].last.kind = "snapshot"
        /\ sess[s].attachVer >= 3
        /\ sess[s].last.data = Marshal(variant, clusterCache)
        /\ ~clusterCache.Nodes.null

\* C20: the channel never holds more than its 10 messages; a publish that
\* finds it full leaves the channel as it is, leaves the state just installed
\* in the cache, counts as nothing sent, and returns the producer to its wait,
\* from where later cycles run.
C20_FullQueueDropsNewest ==
    /\ [](Len(chan) <= ChanCap)
    /\ [][(prod.pc = "notify" /\ Len(chan) >= ChanCap /\ prod'.pc # "notify")
          => /\ chan' = chan
             /\ sent' = sent
             /\ clusterCache' = clusterCache
             /\ clusterCache'.Nodes = cycle.cand
             /\ cycle'.dropped
             /\ prod'.pc = "idle"]_vars

\* the channel is full, two notifications have been dropped (the cycle of the
\* second one ran after the first drop), the last one in the cycle just ended
C20_Witness ==
    /\ Len(chan) = ChanCap
    /\ cycle.dropped
    /\ prod.pc = "idle"
    /\ version - 1 >= sent + 2
    /\ clusterCache.Nodes = cycle.cand

\* C21: a session whose consumer has disconnected is eventually closed: its
\* handler returns, whether the channel holds notifications or not.
C21_DisconnectedSessionCloses ==
    \A s \in Sessions :
        (sess[s].pc = "loop" /\ sess[s].gone) ~> (sess[s].pc = "closed")

\* a handler has returned after its consumer went away while another consumer
\* is gone as well and the channel is empty: that handler can only leave by
\* the case of its request's context
C21_Witness ==
    \E s, t \in Sessions :
        /\ sess[s].pc = "closed"
        /\ sess[t].pc = "loop"
        /\ sess[t].gone
        /\ chan = <<>>

\* the Set calls made for key k, by their place in the history
SetsOf(k) == {i \in DOMAIN kcs.calls : kcs.calls[i][1] = k}

\* C22: what Get(k) returns is an error and no client exactly when no Set(k, _)
\* was ever called, and otherwise no error and the client of the most recent
\* Set(k, _); and a Get leaves the map as it is.
C22_GetReturnsLastSet ==
    /\ [](kcs.ret.op = "Get"
          => LET k == kcs.ret.key
             IN /\ (kcs.ret.err /\ kcs.ret.client = "nil") <=> SetsOf(k) = {}
                /\ kcs.ret.err <=> SetsOf(k) = {}
                /\ SetsOf(k) # {}
                   => LET last == CHOOSE i \in SetsOf(k) : \A j \in SetsOf(k) : j <= i
                      IN kcs.ret.client = kcs.calls[last][2])
    /\ [][(\E key \in Keys : Get(key))
          => kcs'.data = kcs.data /\ kcs'.calls = kcs.calls]_vars

\* Get has returned the client of a key that was set twice, to different
\* clients, with a Set of the other key in between or after
C22_Witness ==
    /\ kcs.ret.op = "Get"
    /\ ~kcs.ret.err
    /\ \E i, j \in SetsOf(kcs.ret.key) :
            i < j /\ kcs.calls[i][2] # kcs.calls[j][2]
    /\ \E i \in DOMAIN kcs.calls : kcs.calls[i][1] # kcs.ret.key

====
